---- MODULE Spec2Model ----
(***************************************************************************)
(* queuectl: the jobs table (storage/database.py), the queue policy        *)
(* (core/queue_manager.py), the worker loop (core/worker.py) and the       *)
(* client processes that share the database file (cli.py).                 *)
(*                                                                         *)
(* One worker process runs a pool of worker threads; its JobStorage.lock   *)
(* serialises the threads of that process only.  Every CLI command (and    *)
(* any other caller of the QueueManager API) is a process of its own: it   *)
(* builds its own QueueManager, which resets the processing rows, and its  *)
(* SQL statements interleave with the workers'.                            *)
(*                                                                         *)
(* A timestamp is a count of clock ticks, TicksPerSecond of them to the    *)
(* second.  The program stores timestamps as datetime.isoformat() strings  *)
(* and compares them as strings (IsoLT); the retry time goes through the   *)
(* machine's local time zone (timestamp, fromtimestamp).  max_retries      *)
(* ranges over the non-negative budgets of the data model.                 *)
(***************************************************************************)
EXTENDS Integers, FiniteSets, Sequences, TLC

\* ------------------------------------------------------------ bounds
NumJobs == 2
NumCliJobs == 1
NumWorkers == 2
TicksPerSecond == 2
MaxTime == 4
MaxRetries == 2
MaxExecs == 3

\* ------------------------------------------------- program constants
BackoffBase == 2
DefaultMaxRetries == 3
DefaultJobTimeout == 300
DefaultPollInterval == 1
DefaultShutdownTimeout == 10
Null == -1

JobIds == 1..NumJobs
\* The empty string, given as a job id.
EmptyId == 0
AllIds == {EmptyId} \cup JobIds
\* The ids the CLI commands of Spec name; SpecRun starts from rows of any id.
CliJobIds == 1..NumCliJobs
Workers == 1..NumWorkers
\* Shell commands: "true" exits 0, "false" exits 1, "flaky" exits 0 or 1 from
\* one run to the next.
Commands == {"true", "false", "flaky"}
\* The commands the CLI of Spec enqueues.
CliCommands == {"true", "false"}
RetryBudgets == 0..MaxRetries

PENDING == "pending"
PROCESSING == "processing"
COMPLETED == "completed"
FAILED == "failed"
DEAD == "dead"
JobStates == {PENDING, PROCESSING, COMPLETED, FAILED, DEAD}

\* No row / no Job object (Python None).
NoJob ==
    [id |-> 0, command |-> "", state |-> "", attempts |-> 0, max_retries |-> 0,
     created_at |-> Null, updated_at |-> Null, next_retry_at |-> Null,
     error_message |-> ""]

\* What get_stats has returned before any call: no dictionary.
NoStats == [k \in JobStates \cup {"total"} |-> Null]

VARIABLES
    rows,       \* the jobs table: id -> row, NoJob when there is no row
    now,        \* the wall clock (datetime.utcnow), in seconds
    lock,       \* holder of the worker process's JobStorage.lock, 0 when free
    wpc,        \* each worker thread's position
    wjob,       \* each worker thread's local Job object
    cpc,        \* the CLI process's position
    cop,        \* the CLI process's command
    cjob,       \* the CLI process's arguments, then its local Job object
    cres,       \* what the last CLI command reported
    execs,      \* per id: jobs handed to workers since the id was (re)queued
    zone,       \* the local time zone of the machine
    config,     \* the stored configuration (queuectl_config.json)
    pool,       \* the worker process's WorkerManager and its workers' flags
    cstats      \* the dictionary the last get_stats call returned

vars ==
    <<rows, now, lock, wpc, wjob, cpc, cop, cjob, cres, execs, zone, config, pool,
      cstats>>

\* ------------------------------------------------------------ time
\* datetime.utcnow().isoformat() + "Z": "...T00:00:05.500000Z", but
\* "...T00:00:05Z" when the microsecond is 0.  Second and Fraction are the two
\* parts of the printed timestamp.
Second(t) == t \div TicksPerSecond

Fraction(t) == t % TicksPerSecond

\* a < b as Python and SQLite order the two strings.  Within one second the
\* next character decides: "." (a fraction follows) sorts before "Z" (none).
IsoLT(a, b) ==
    IF Second(a) # Second(b) THEN Second(a) < Second(b)
    ELSE IF Fraction(a) = 0 THEN FALSE
    ELSE IF Fraction(b) = 0 THEN TRUE
    ELSE Fraction(a) < Fraction(b)

IsoLE(a, b) == a = b \/ IsoLT(a, b)

\* A time zone: local time is UTC + before until the instant `at`, and
\* UTC + after from then on.
Hour == 3600 * TicksPerSecond

FixedZone == [at |-> 0, before |-> 0, after |-> 0]

\* Clocks go forward one hour at `at` (daylight saving time begins).
SpringZone == [at |-> TicksPerSecond, before |-> 0, after |-> Hour]

\* Clocks go back one hour at `at` (daylight saving time ends).
FallZone == [at |-> TicksPerSecond - Hour, before |-> Hour, after |-> 0]

Zones == {FixedZone, SpringZone, FallZone}

\* naive_datetime.timestamp(): the naive value is taken as local time; a local
\* time that the zone skips or repeats is read with the earlier offset.
timestamp(x, z) ==
    IF x < z.at + (IF z.before > z.after THEN z.before ELSE z.after)
    THEN x - z.before
    ELSE x - z.after

\* datetime.fromtimestamp(e): the local time of the instant e.
fromtimestamp(e, z) == IF e < z.at THEN e + z.before ELSE e + z.after

\* ------------------------------------------------------------ Config
\* float("inf"): larger than every number of the model.
Inf == 2^30

\* Config.DEFAULT_CONFIG
DEFAULT_CONFIG ==
    [max_retries |-> DefaultMaxRetries,
     backoff_base |-> BackoffBase,
     job_timeout |-> DefaultJobTimeout,
     poll_interval |-> DefaultPollInterval,
     worker_shutdown_timeout |-> DefaultShutdownTimeout]

\* ------------------------------------------------------------ WorkerManager
\* The WorkerManager of a process whose threads are at the positions pcs, with
\* no stop_workers call made: running is Worker.running, workers the list
\* WorkerManager.workers, pc the main thread's position in stop_workers and
\* joined the workers its join loop has passed.
PoolOf(pcs) ==
    [running |-> [w \in Workers |-> pcs[w] # "off"],
     workers |-> {w \in Workers : pcs[w] # "off"},
     shutdown_event |-> FALSE,
     pc |-> "run",
     joined |-> {}]

\* ------------------------------------------------------------ Job
\* A Job built without its max_retries argument: the dataclass default applies.
NewJobDefaultBudget(id, command, max_retries, t) ==
    [id |-> id, command |-> command, state |-> PENDING, attempts |-> 0,
     max_retries |-> DefaultMaxRetries, created_at |-> t, updated_at |-> t,
     next_retry_at |-> Null, error_message |-> ""]

\* Job(id=..., command=..., max_retries=...) with __post_init__.
NewJob(id, command, max_retries, t) ==
    [id |-> id, command |-> command, state |-> PENDING, attempts |-> 0,
     max_retries |-> max_retries, created_at |-> t, updated_at |-> t,
     next_retry_at |-> Null, error_message |-> ""]

update_state(job, new_state, error_message, t) ==
    [job EXCEPT !.state = new_state,
                !.updated_at = t,
                !.error_message = IF error_message # "" THEN error_message ELSE @]

increment_attempts(job, t) ==
    [job EXCEPT !.attempts = @ + 1, !.updated_at = t]

\* An off-by-one in the retry test: <= for <.
should_retry_inclusive(job) == job.attempts <= job.max_retries

should_retry(job) == job.attempts < job.max_retries

RECURSIVE Pow(_, _)
Pow(b, n) == IF n = 0 THEN 1 ELSE b * Pow(b, n - 1)

\* backoff_base ** attempts, in seconds.
calculate_retry_delay(job, backoff_base) ==
    IF backoff_base = Inf
    THEN (IF job.attempts = 0 THEN 1 ELSE Inf)
    ELSE Pow(backoff_base, job.attempts)

\* datetime.fromtimestamp(next_time) raises OverflowError: the delay is infinite.
set_next_retry_raises(job, backoff_base) == calculate_retry_delay(job, backoff_base) = Inf

\* next_time = utcnow().timestamp() + delay; fromtimestamp(next_time).isoformat()
set_next_retry(job, backoff_base, t, z) ==
    [job EXCEPT !.next_retry_at =
        fromtimestamp(timestamp(t, z)
                        + TicksPerSecond * calculate_retry_delay(job, backoff_base), z)]


\* ------------------------------------------------------------ JobStorage
\* INSERT OR REPLACE INTO jobs ... : an upsert by id of the whole row.
save_job(tbl, job) == [tbl EXCEPT ![job.id] = job]

\* save_job, lines 110-112: the INSERT raises sqlite3.Error (the database is
\* locked by a writer of another process, or cannot be written); the error is
\* printed and False is returned; the table is as it was.
save_job_failing(tbl, job) == tbl

\* A lookup that finds nothing.
get_job_misses(tbl, id) == NoJob

get_job(tbl, id) == tbl[id]

\* SELECT * FROM jobs WHERE state = 'pending' ORDER BY created_at ASC LIMIT 1.
\* The statement names no tie-breaker: any oldest pending row may be the one.
OldestPending(tbl) ==
    {j \in AllIds : /\ tbl[j].state = PENDING
                    /\ \A k \in AllIds : tbl[k].state = PENDING
                                           => ~IsoLT(tbl[k].created_at, tbl[j].created_at)}

\* The comparison strict: a job is ready only after its next_retry_at.
get_retryable_jobs_after(tbl, t) ==
    {j \in AllIds : /\ tbl[j].state = FAILED
                    /\ tbl[j].next_retry_at # Null
                    /\ IsoLT(tbl[j].next_retry_at, t)}

\* get_retryable_jobs: WHERE state = 'failed' AND next_retry_at IS NOT NULL
\* AND next_retry_at <= now.
get_retryable_jobs(tbl, t) ==
    {j \in AllIds : /\ tbl[j].state = FAILED
                    /\ tbl[j].next_retry_at # Null
                    /\ IsoLE(tbl[j].next_retry_at, t)}

\* ... ORDER BY next_retry_at ASC: the candidates for retryable[0].
RetryHeads(tbl, t) ==
    {j \in get_retryable_jobs(tbl, t) :
        \A k \in get_retryable_jobs(tbl, t) :
            ~IsoLT(tbl[k].next_retry_at, tbl[j].next_retry_at)}

\* UPDATE jobs SET state = 'processing', updated_at = ? WHERE id = ? AND state = 'pending'
ClaimAffected(tbl, job) == tbl[job.id].state = PENDING

\* The UPDATE is issued but never takes effect (as when the commit is missing).
ClaimWriteLost(tbl, job) == tbl

ClaimWrite(tbl, job) ==
    IF ClaimAffected(tbl, job)
    THEN [tbl EXCEPT ![job.id].state = job.state, ![job.id].updated_at = job.updated_at]
    ELSE tbl

\* The total_changes test left out: the Job is returned whatever the UPDATE did.
ClaimReturnsAlways(tbl, job) == TRUE

\* if conn.total_changes == 0: return None
ClaimReturns(tbl, job) == ClaimAffected(tbl, job)

\* A reset that never issues its UPDATE.
reset_processing_jobs_skipped(tbl, t) == tbl

\* UPDATE jobs SET state = 'pending', updated_at = now WHERE state = 'processing'
reset_processing_jobs(tbl, t) ==
    [j \in AllIds |->
        IF tbl[j].state = PROCESSING
        THEN [tbl[j] EXCEPT !.state = PENDING, !.updated_at = t]
        ELSE tbl[j]]

\* DELETE FROM jobs WHERE id = ?
delete_job(tbl, id) == [tbl EXCEPT ![id] = NoJob]

\* cleanup_old_jobs: cutoff = (utcnow() - timedelta(days=days)).isoformat() + "Z"
Cutoff(days, t) == t - days * 24 * Hour

\* The rows that DELETE FROM jobs WHERE state = 'completed' AND updated_at < cutoff
\* removes; their number is cursor.rowcount.
CleanupDeletes(tbl, days, t) ==
    {j \in AllIds : /\ tbl[j].state = COMPLETED
                    /\ IsoLT(tbl[j].updated_at, Cutoff(days, t))}

cleanup_old_jobs(tbl, days, t) ==
    [j \in AllIds |-> IF j \in CleanupDeletes(tbl, days, t) THEN NoJob ELSE tbl[j]]

\* sum(stats.values()), line 249.
RECURSIVE SumValues(_, _)
SumValues(stats, keys) ==
    IF keys = {} THEN 0
    ELSE LET k == CHOOSE x \in keys : TRUE
         IN  stats[k] + SumValues(stats, keys \ {k})

\* The GROUP BY of get_stats, lines 232-236: one group per state that has rows.
StateGroups(tbl) ==
    LET states == {tbl[j].state : j \in {i \in AllIds : tbl[i] # NoJob}}
    IN  [s \in states |-> Cardinality({j \in AllIds : tbl[j] # NoJob /\ tbl[j].state = s})]

\* A get_stats that adds the total up before it reads the groups.
get_stats_total_first(tbl) ==
    LET groups == StateGroups(tbl)
    IN  [k \in JobStates \cup DOMAIN groups \cup {"total"} |->
            IF k \in DOMAIN groups THEN groups[k] ELSE 0]

\* get_stats, lines 224-251: a dictionary with 0 for the five states, the
\* groups written over it, and then 'total', the sum of its values.
get_stats(tbl) ==
    LET groups == StateGroups(tbl)
        stats == [s \in JobStates \cup DOMAIN groups |->
                    IF s \in DOMAIN groups THEN groups[s] ELSE 0]
    IN  [k \in DOMAIN stats \cup {"total"} |->
            IF k = "total" THEN SumValues(stats, DOMAIN stats) ELSE stats[k]]

\* ---------------------------------------------------------- QueueManager
mark_completed(job, t) == update_state(job, COMPLETED, "", t)

\* The Job that mark_failed hands to save_job.
mark_failed(job, error_message, backoff_base, t, z) ==
    LET j1 == increment_attempts(job, t)
    IN  IF should_retry(j1)
        THEN set_next_retry(update_state(j1, FAILED, error_message, t), backoff_base, t, z)
        ELSE update_state(j1, DEAD, error_message, t)

\* mark_failed raises in set_next_retry (line 115), before its save_job.
mark_failed_raises(job, backoff_base, t) ==
    /\ should_retry(increment_attempts(job, t))
    /\ set_next_retry_raises(increment_attempts(job, t), backoff_base)

\* The Job object as a mark_failed that raised leaves it (lines 110-114).
mark_failed_aborted(job, error_message, t) ==
    update_state(increment_attempts(job, t), FAILED, error_message, t)

\* The reset without line 176 (job.attempts = 0).
ResetForRetryKeepsAttempts(job, t) ==
    [update_state(job, PENDING, "", t) EXCEPT !.next_retry_at = Null, !.error_message = ""]

\* The guard without its state test: any row there is may be retried.
NotInDlqMissingOnly(job) == job = NoJob

\* retry_dlq_job, line 172: if not job or job.state != JobState.DEAD.
NotInDlq(job) == job = NoJob \/ job.state # DEAD

\* The reset without lines 178-179: next_retry_at and error_message are kept.
ResetForRetryKeepsError(job, t) == update_state([job EXCEPT !.attempts = 0], PENDING, "", t)

\* retry_dlq_job, lines 176-179.
ResetForRetry(job, t) ==
    [update_state([job EXCEPT !.attempts = 0], PENDING, "", t)
        EXCEPT !.next_retry_at = Null, !.error_message = ""]

\* The exit code of the child: "true", the empty command and "binary" exit 0,
\* "false" exits 1.
ExitCode(command) == IF command \in {"true", "", "binary"} THEN 0 ELSE 1

\* subprocess.run(job.command, shell=True, capture_output=True, text=True,
\* timeout=timeout) raises instead of returning: TimeoutExpired for "sleep",
\* which outlasts job_timeout; UnicodeDecodeError for "binary", whose output is
\* not UTF-8 text.
Raises(command) ==
    IF command = "sleep" THEN "TimeoutExpired"
    ELSE IF command = "binary" THEN "UnicodeDecodeError"
    ELSE ""

\* The values of result.returncode a run of the command can return.
ExitCodes(command) ==
    IF command = "flaky" THEN {0, 1}
    ELSE IF Raises(command) # "" THEN {}
    ELSE {ExitCode(command)}

\* The error_msg of the except branch that catches the exception.
RaisedMessage(exception) ==
    IF exception = "TimeoutExpired" THEN "Command timed out after 300 seconds"
    ELSE IF exception = "FileNotFoundError" THEN "Command not found"
    ELSE "Execution error: " \o exception

ErrorMessage(code) == "Command exited with code 1"

\* The failure branches of _execute_job: mark_failed(job, error_msg).  Called
\* inside the try block (line 120), a mark_failed that raises is caught by
\* `except Exception` (lines 132-135), which calls mark_failed again on the same
\* Job object; an exception raised in an except branch, or by that second
\* call, leaves _execute_job, and _run logs it: nothing is saved.
report_failure(tbl, job, error_message, in_try, backoff_base, t, z) ==
    IF ~mark_failed_raises(job, backoff_base, t)
    THEN save_job(tbl, mark_failed(job, error_message, backoff_base, t, z))
    ELSE IF ~in_try
    THEN tbl
    ELSE LET again == mark_failed_aborted(job, error_message, t)
         IN  IF mark_failed_raises(again, backoff_base, t)
             THEN tbl
             ELSE save_job(tbl, mark_failed(again, RaisedMessage("OverflowError"),
                                            backoff_base, t, z))

Bump(n) == IF n < MaxExecs THEN n + 1 ELSE n


\* ------------------------------------------------------------ initial state
\* An empty database, no worker process, no CLI process.
Init ==
    /\ rows = [j \in AllIds |-> NoJob]
    /\ now = 0
    /\ lock = 0
    /\ wpc = [w \in Workers |-> "off"]
    /\ wjob = [w \in Workers |-> NoJob]
    /\ cpc = "none"
    /\ cop = ""
    /\ cjob = NoJob
    /\ cres = ""
    /\ execs = [j \in AllIds |-> 0]
    /\ zone = FixedZone
    /\ config = DEFAULT_CONFIG
    /\ pool = PoolOf(wpc)
    /\ cstats = NoStats

\* ------------------------------------------------------------ the clock
\* The clock is read d ticks later than it was last read.
Tick(d) ==
    /\ now + d <= MaxTime
    /\ now' = now + d
    /\ UNCHANGED <<cstats, zone, config, pool, rows, lock, wpc, wjob, cpc, cop, cjob, cres, execs>>

\* Worker ids that start at 0: range(count) without the + 1.
WorkerIdsFromZero(count) == {i : i \in 0..(count - 1)}

\* start_workers, lines 189-190: Worker(i + 1, ...) for i in range(count).
WorkerIds(count) == {i + 1 : i \in 0..(count - 1)}

\* ------------------------------------------------------------ worker process
\* `queuectl worker start -c count`: the module-level QueueManager(config)
\* resets the processing rows, then start_workers(count) starts the threads.
PoolStart(count) ==
    /\ \A w \in Workers : wpc[w] = "off"
    /\ pool.pc = "run"
    /\ rows' = reset_processing_jobs(rows, now)
    /\ wpc' = [w \in Workers |-> IF w \in WorkerIds(count) THEN "idle" ELSE "off"]
    /\ pool' = PoolOf(wpc')
    /\ UNCHANGED <<cstats, zone, config, now, lock, wjob, cpc, cop, cjob, cres, execs>>

\* `queuectl worker start -c COUNT` with COUNT < 1, cli.py 189-191: the process
\* (with the QueueManager cli.py line 19 has built) exits with code 1 before
\* start_workers.
StartRefused(count) ==
    /\ count < 1
    /\ cpc = "none"
    /\ rows' = reset_processing_jobs(rows, now)
    /\ cop' = "worker start"
    /\ cres' = "exit 1"
    /\ cpc' = "done"
    /\ UNCHANGED <<cstats, zone, config, pool, now, lock, wpc, wjob, cjob, execs>>

\* `queuectl worker start -c COUNT`, cli.py 175-213.
WorkerStart(count) ==
    \/ StartRefused(count)
    \/ count >= 1 /\ PoolStart(count)

\* The worker process ends (killed, or its daemon threads abandoned at exit):
\* its threads, their Job objects and its lock are gone; the rows stay.
PoolExit ==
    /\ \E w \in Workers : wpc[w] # "off"
    /\ wpc' = [w \in Workers |-> "off"]
    /\ wjob' = [w \in Workers |-> NoJob]
    /\ lock' = 0
    /\ pool' = PoolOf(wpc')
    /\ UNCHANGED <<cstats, zone, config, rows, now, cpc, cop, cjob, cres, execs>>

\* A loop that never looks at the stop flag: while True.
LoopTestAlways(w) == TRUE

\* _run, line 65: while self.running
LoopTest(w) == pool.running[w]

\* _run, line 65: the loop test fails and the thread ends.
RunEnds(w) ==
    /\ wpc[w] = "idle"
    /\ ~LoopTest(w)
    /\ wpc' = [wpc EXCEPT ![w] = "stopped"]
    /\ UNCHANGED <<cstats, zone, config, pool, rows, now, lock, wjob, cpc, cop, cjob, cres, execs>>

\* _run, line 65: the loop test holds; get_next_job, lines 79-83: read the
\* retry-ready rows; the head, if any, becomes a local Job moved to pending.
GetRetryable(w) ==
    /\ wpc[w] = "idle"
    /\ LoopTest(w)
    /\ IF RetryHeads(rows, now) = {}
       THEN /\ wpc' = [wpc EXCEPT ![w] = "claim"]
            /\ UNCHANGED wjob
       ELSE \E j \in RetryHeads(rows, now) :
            /\ wjob' = [wjob EXCEPT ![w] = update_state(rows[j], PENDING, "", now)]
            /\ wpc' = [wpc EXCEPT ![w] = "save_retry"]
    /\ UNCHANGED <<cstats, zone, config, pool, rows, now, lock, cpc, cop, cjob, cres, execs>>

\* get_next_job, line 84: self.storage.save_job(job), under the lock.
SaveRetry(w) ==
    /\ wpc[w] = "save_retry"
    /\ lock = 0
    /\ rows' = save_job(rows, wjob[w])
    /\ wpc' = [wpc EXCEPT ![w] = "claim"]
    /\ UNCHANGED <<cstats, zone, config, pool, now, lock, wjob, cpc, cop, cjob, cres, execs>>

\* get_next_pending_job, lines 142-159: take the lock, SELECT the oldest pending
\* row; none: return None and sleep poll_interval.
ClaimSelect(w) ==
    /\ wpc[w] = "claim"
    /\ lock = 0
    /\ IF OldestPending(rows) = {}
       THEN /\ wpc' = [wpc EXCEPT ![w] = "idle"]
            /\ wjob' = [wjob EXCEPT ![w] = NoJob]
            /\ UNCHANGED lock
       ELSE \E j \in OldestPending(rows) :
            /\ wjob' = [wjob EXCEPT ![w] = update_state(rows[j], PROCESSING, "", now)]
            /\ wpc' = [wpc EXCEPT ![w] = "claim_update"]
            /\ lock' = w
    /\ UNCHANGED <<cstats, zone, config, pool, rows, now, cpc, cop, cjob, cres, execs>>

\* get_next_pending_job, lines 160-172: the conditional UPDATE, the commit, the
\* total_changes test, and the release of the lock.
ClaimUpdate(w) ==
    /\ wpc[w] = "claim_update"
    /\ rows' = ClaimWrite(rows, wjob[w])
    /\ lock' = 0
    /\ IF ClaimReturns(rows, wjob[w])
       THEN /\ wpc' = [wpc EXCEPT ![w] = "exec"]
            /\ execs' = [execs EXCEPT ![wjob[w].id] = Bump(@)]
            /\ UNCHANGED wjob
       ELSE /\ wpc' = [wpc EXCEPT ![w] = "idle"]
            /\ wjob' = [wjob EXCEPT ![w] = NoJob]
            /\ UNCHANGED execs
    /\ UNCHANGED <<cstats, zone, config, pool, now, cpc, cop, cjob, cres>>

\* _execute_job: the child has exited with `code`; exit code 0 is reported by
\* mark_completed, any other by mark_failed; both end in save_job, under the lock.
ReportAs(w, code) ==
    /\ wpc[w] = "exec"
    /\ lock = 0
    /\ rows' = IF code = 0
               THEN save_job(rows, mark_completed(wjob[w], now))
               ELSE report_failure(rows, wjob[w], ErrorMessage(code), TRUE,
                                   config.backoff_base, now, zone)
    /\ wpc' = [wpc EXCEPT ![w] = "idle"]
    /\ wjob' = [wjob EXCEPT ![w] = NoJob]
    /\ UNCHANGED <<cstats, zone, config, pool, now, lock, cpc, cop, cjob, cres, execs>>

Report(w) == \E code \in ExitCodes(wjob[w].command) : ReportAs(w, code)

\* mark_completed or mark_failed when their save_job returns False: they
\* return as ever and the worker goes on to its next iteration.
ReportUnsaved(w) ==
    /\ wpc[w] = "exec"
    /\ lock = 0
    /\ rows' = save_job_failing(rows, wjob[w])
    /\ wpc' = [wpc EXCEPT ![w] = "idle"]
    /\ wjob' = [wjob EXCEPT ![w] = NoJob]
    /\ UNCHANGED <<cstats, zone, config, pool, now, lock, cpc, cop, cjob, cres, execs>>

\* _execute_job, lines 122-135: subprocess.run has raised; the except branch
\* reports the execution by mark_failed.
ReportRaised(w) ==
    /\ wpc[w] = "exec"
    /\ lock = 0
    /\ Raises(wjob[w].command) # ""
    /\ rows' = report_failure(rows, wjob[w], RaisedMessage(Raises(wjob[w].command)),
                               FALSE, config.backoff_base, now, zone)
    /\ wpc' = [wpc EXCEPT ![w] = "idle"]
    /\ wjob' = [wjob EXCEPT ![w] = NoJob]
    /\ UNCHANGED <<cstats, zone, config, pool, now, lock, cpc, cop, cjob, cres, execs>>

\* An exception that ends the thread instead of being caught.
RunPropagates(w) == "stopped"

\* _run, lines 79-81: `except Exception` logs the error and sleeps
\* poll_interval; the thread stays in its loop.
RunCatches(w) == "caught"

\* get_next_job raises in get_next_pending_job (a sqlite3 error of the SELECT,
\* or of the UPDATE or its commit, database.py 143-166): nothing is written,
\* `with self.lock` releases the lock, and _run catches the exception.
GetNextJobRaises(w) ==
    /\ \/ wpc[w] = "claim" /\ lock = 0
       \/ wpc[w] = "claim_update"
    /\ lock' = 0
    /\ wpc' = [wpc EXCEPT ![w] = RunCatches(w)]
    /\ wjob' = [wjob EXCEPT ![w] = NoJob]
    /\ UNCHANGED <<cstats, zone, config, pool, rows, now, cpc, cop, cjob, cres, execs>>

\* _run, line 81: the sleep after the error ends; back to the loop test.
Resumes(w) ==
    /\ wpc[w] = "caught"
    /\ wpc' = [wpc EXCEPT ![w] = "idle"]
    /\ UNCHANGED <<cstats, zone, config, pool, rows, now, lock, wjob, cpc, cop, cjob, cres, execs>>

\* stop_workers is called: by the signal handler of `worker start`, or by
\* `worker stop`, a process of its own that has built its QueueManager (the
\* reset of cli.py line 19) and has no workers.  Lines 199-200: with an empty
\* worker list stop_workers returns at once.
StopWorkers ==
    /\ pool.pc = "run"
    /\ IF pool.workers = {}
       THEN /\ rows' = reset_processing_jobs(rows, now)
            /\ pool' = [pool EXCEPT !.pc = "returned"]
       ELSE /\ pool' = [pool EXCEPT !.pc = "stopping"]
            /\ UNCHANGED rows
    /\ UNCHANGED <<cstats, zone, config, now, lock, wpc, wjob, cpc, cop, cjob, cres, execs>>

\* The workers of the list whose stop flag the first loop has yet to set.
Unstopped == {w \in pool.workers : pool.running[w]}

\* stop_workers, lines 205-206: worker.stop() for the next worker of the list;
\* after the last one the join loop begins.
StopFlag ==
    /\ pool.pc = "stopping"
    /\ \E w \in Unstopped :
        /\ \A v \in Unstopped : w <= v
        /\ pool' = [pool EXCEPT !.running[w] = FALSE,
                                !.pc = IF Unstopped = {w} THEN "joining" ELSE "stopping"]
    /\ UNCHANGED <<cstats, zone, config, rows, now, lock, wpc, wjob, cpc, cop, cjob, cres, execs>>

\* stop_workers, lines 209-212: worker.join(timeout) for the next worker of the
\* list returns: its thread has ended, or worker_shutdown_timeout has passed.
JoinWorker ==
    /\ pool.pc = "joining"
    /\ \E w \in pool.workers \ pool.joined :
        /\ \A v \in pool.workers \ pool.joined : w <= v
        /\ pool' = [pool EXCEPT !.joined = @ \cup {w}]
    /\ UNCHANGED <<cstats, zone, config, rows, now, lock, wpc, wjob, cpc, cop, cjob, cres, execs>>

\* stop_workers, lines 214-216: workers.clear(); shutdown_event.set().
StopReturn ==
    /\ pool.pc = "joining"
    /\ pool.joined = pool.workers
    /\ pool' = [pool EXCEPT !.workers = {}, !.shutdown_event = TRUE, !.pc = "returned"]
    /\ UNCHANGED <<cstats, zone, config, rows, now, lock, wpc, wjob, cpc, cop, cjob, cres, execs>>

\* sys.exit(0) after stop_workers has returned: the process ends, with it the
\* daemon threads that have not ended.
ExitAfterStop ==
    /\ pool.pc = "returned"
    /\ wpc' = [w \in Workers |-> "off"]
    /\ wjob' = [w \in Workers |-> NoJob]
    /\ lock' = 0
    /\ pool' = [PoolOf(wpc') EXCEPT !.pc = "exited"]
    /\ UNCHANGED <<cstats, zone, config, rows, now, cpc, cop, cjob, cres, execs>>

\* ------------------------------------------------------------ client process
\* A CLI command starts: cli.py line 19 builds QueueManager(config), whose
\* constructor resets the processing rows.  cjob holds the arguments.
CliStart(op, id, command, max_retries) ==
    /\ cpc = "none"
    /\ rows' = reset_processing_jobs(rows, now)
    /\ cpc' = "loaded"
    /\ cop' = op
    /\ cjob' = [NoJob EXCEPT !.id = id, !.command = command, !.max_retries = max_retries]
    /\ UNCHANGED <<cstats, zone, config, pool, now, lock, wpc, wjob, cres, execs>>

\* enqueue, lines 48-61: an omitted max_retries (Null) is the configured one;
\* get_job; a row: ValueError "already exists"; none: Job(...).
EnqueueCheck ==
    /\ cpc = "loaded"
    /\ cop = "enqueue"
    /\ IF get_job(rows, cjob.id) # NoJob
       THEN /\ cpc' = "done"
            /\ cres' = "already exists"
            /\ UNCHANGED cjob
       ELSE /\ cpc' = "enq_save"
            /\ cjob' = NewJob(cjob.id, cjob.command,
                              IF cjob.max_retries = Null THEN config.max_retries
                                                         ELSE cjob.max_retries,
                              now)
            /\ UNCHANGED cres
    /\ UNCHANGED <<cstats, zone, config, pool, rows, now, lock, wpc, wjob, cop, execs>>

\* enqueue, lines 64-65: save_job(job); return job.
EnqueueSave ==
    /\ cpc = "enq_save"
    /\ rows' = save_job(rows, cjob)
    /\ execs' = [execs EXCEPT ![cjob.id] = 0]
    /\ cpc' = "done"
    /\ cres' = "ok"
    /\ UNCHANGED <<cstats, zone, config, pool, now, lock, wpc, wjob, cop, cjob>>

\* QueueManager.enqueue (lines 48-65) called by a second client process, its
\* get_job and its save_job with no step of another process between them.
OtherEnqueue(id, command, max_retries) ==
    /\ get_job(rows, id) = NoJob
    /\ rows' = save_job(rows, NewJob(id, command, max_retries, now))
    /\ execs' = [execs EXCEPT ![id] = 0]
    /\ UNCHANGED <<cstats, zone, config, pool, now, lock, wpc, wjob, cpc, cop, cjob, cres>>

\* retry_dlq_job, lines 170-179.
RetryDlqGet ==
    /\ cpc = "loaded"
    /\ cop = "retry_dlq"
    /\ IF NotInDlq(get_job(rows, cjob.id))
       THEN /\ cpc' = "done"
            /\ cres' = "false"
            /\ UNCHANGED cjob
       ELSE /\ cpc' = "dlq_save"
            /\ cjob' = ResetForRetry(get_job(rows, cjob.id), now)
            /\ UNCHANGED cres
    /\ UNCHANGED <<cstats, zone, config, pool, rows, now, lock, wpc, wjob, cop, execs>>

\* retry_dlq_job, lines 181-182.
RetryDlqSave ==
    /\ cpc = "dlq_save"
    /\ rows' = save_job(rows, cjob)
    /\ execs' = [execs EXCEPT ![cjob.id] = 0]
    /\ cpc' = "done"
    /\ cres' = "true"
    /\ UNCHANGED <<cstats, zone, config, pool, now, lock, wpc, wjob, cop, cjob>>

\* enqueue, lines 64-65, when save_job returns False: the result is not
\* looked at and the Job is returned.
EnqueueUnsaved ==
    /\ cpc = "enq_save"
    /\ rows' = save_job_failing(rows, cjob)
    /\ cpc' = "done"
    /\ cres' = "ok"
    /\ UNCHANGED <<cstats, zone, config, pool, now, lock, wpc, wjob, cop, cjob, execs>>

\* retry_dlq_job, lines 181-182, when save_job returns False: True is returned.
RetryDlqUnsaved ==
    /\ cpc = "dlq_save"
    /\ rows' = save_job_failing(rows, cjob)
    /\ cpc' = "done"
    /\ cres' = "true"
    /\ UNCHANGED <<cstats, zone, config, pool, now, lock, wpc, wjob, cop, cjob, execs>>

\* QueueManager.delete_job, called by a client of the API: one DELETE; true
\* when a row was removed.
Delete ==
    /\ cpc = "loaded"
    /\ cop = "delete"
    /\ rows' = delete_job(rows, cjob.id)
    /\ cres' = IF rows[cjob.id] # NoJob THEN "true" ELSE "false"
    /\ cpc' = "done"
    /\ UNCHANGED <<cstats, zone, config, pool, now, lock, wpc, wjob, cop, cjob, execs>>

\* The CLI process exits (sys.exit, or the end of the command).
CliExit ==
    /\ cpc = "done"
    /\ cpc' = "none"
    /\ cop' = ""
    /\ cjob' = NoJob
    /\ cres' = ""
    /\ UNCHANGED <<cstats, zone, config, pool, rows, now, lock, wpc, wjob, execs>>

\* ------------------------------------------------------------ config set
\* The keys `config set` knows (cli.py 426-432), and one it does not.
valid_keys ==
    {"max-retries", "backoff-base", "job-timeout", "poll-interval",
     "worker-shutdown-timeout"}

ConfigKeys == valid_keys \cup {"timeout"}

\* key.replace('-', '_'), line 440.
config_key(key) ==
    CASE key = "max-retries" -> "max_retries"
      [] key = "backoff-base" -> "backoff_base"
      [] key = "job-timeout" -> "job_timeout"
      [] key = "poll-interval" -> "poll_interval"
      [] key = "worker-shutdown-timeout" -> "worker_shutdown_timeout"
      [] OTHER -> key

\* The value arguments tried: texts that int() reads, texts that only float()
\* reads, and one that neither reads.
IntTexts == {"-1", "0", "1", "5"}

ValueTexts == IntTexts \cup {"inf", "nan", "abc"}

\* float('nan'): not a number; every comparison with it is false.
NaN == -Inf

\* int(value), line 445, where it does not raise ValueError.
IntOf(text) ==
    CASE text = "-1" -> -1
      [] text = "0" -> 0
      [] text = "1" -> 1
      [] text = "5" -> 5

\* float(value), line 451, where it does not raise ValueError.
FloatOf(text) ==
    CASE text = "inf" -> Inf
      [] text = "nan" -> NaN
      [] OTHER -> IntOf(text)

\* a <= b on floats.
FloatLE(a, b) == a # NaN /\ b # NaN /\ a <= b

\* The inner try of set, lines 443-457: whether the conversion or a range
\* check raises ValueError.
SetRaises(key, text) ==
    IF config_key(key) = "backoff_base"
    THEN text = "abc" \/ FloatLE(FloatOf(text), 0)
    ELSE \/ text \notin IntTexts
         \/ IntOf(text) < 0
         \/ (config_key(key) = "poll_interval" /\ IntOf(text) < 1)

\* Config.set, config.py 88-97.
ConfigSetValue(cfg, key, value) == [cfg EXCEPT ![key] = value]

\* `queuectl config set KEY VALUE`, cli.py 399-465, with the QueueManager that
\* cli.py line 19 builds first: exit 1 for an unknown key or a ValueError, or
\* else the value is stored under the snake_case key.
ConfigSet(key, text) ==
    /\ cpc = "none"
    /\ rows' = reset_processing_jobs(rows, now)
    /\ cop' = "config set"
    /\ cpc' = "done"
    /\ IF key \notin valid_keys \/ SetRaises(key, text)
       THEN /\ cres' = "exit 1"
            /\ UNCHANGED config
       ELSE /\ config' = ConfigSetValue(config, config_key(key),
                            IF config_key(key) = "backoff_base"
                            THEN FloatOf(text) ELSE IntOf(text))
            /\ cres' = "updated"
    /\ UNCHANGED <<cstats, zone, pool, now, lock, wpc, wjob, cjob, execs>>

\* ------------------------------------------------------------ specification
Next ==
    \/ Tick(TicksPerSecond)
    \/ \E count \in Workers : PoolStart(count)
    \/ PoolExit
    \/ \E w \in Workers : GetRetryable(w)
    \/ \E w \in Workers : SaveRetry(w)
    \/ \E w \in Workers : ClaimSelect(w)
    \/ \E w \in Workers : ClaimUpdate(w)
    \/ \E w \in Workers : Report(w)
    \/ \E id \in CliJobIds, c \in CliCommands, m \in RetryBudgets :
            CliStart("enqueue", id, c, m)
    \/ \E id \in CliJobIds : CliStart("retry_dlq", id, "", 0)
    \/ \E id \in CliJobIds : CliStart("delete", id, "", 0)
    \/ EnqueueCheck
    \/ EnqueueSave
    \/ RetryDlqGet
    \/ RetryDlqSave
    \/ Delete
    \/ CliExit

Spec == Init /\ [][Next]_vars

\* A single run of the worker process: jobs were enqueued, `worker start -c K`
\* has started K threads, and nothing but the threads and the clock moves.
InitRun ==
    /\ \E present \in SUBSET JobIds, c \in [JobIds -> Commands],
          m \in [JobIds -> RetryBudgets] :
          rows = [j \in AllIds |->
                    IF j \in present THEN NewJob(j, c[j], m[j], 0) ELSE NoJob]
    /\ \E count \in Workers :
          wpc = [w \in Workers |-> IF w <= count THEN "idle" ELSE "off"]
    /\ now = 0
    /\ lock = 0
    /\ wjob = [w \in Workers |-> NoJob]
    /\ cpc = "none"
    /\ cop = ""
    /\ cjob = NoJob
    /\ cres = ""
    /\ execs = [j \in AllIds |-> 0]
    /\ zone = FixedZone
    /\ config = DEFAULT_CONFIG
    /\ pool = PoolOf(wpc)
    /\ cstats = NoStats

NextRun ==
    \/ Tick(TicksPerSecond)
    \/ \E w \in Workers : GetRetryable(w)
    \/ \E w \in Workers : SaveRetry(w)
    \/ \E w \in Workers : ClaimSelect(w)
    \/ \E w \in Workers : ClaimUpdate(w)
    \/ \E w \in Workers : Report(w)

SpecRun == InitRun /\ [][NextRun]_vars


\* The threads are scheduled by the operating system: a thread that can take
\* its next step eventually takes it; and time passes.
SpecRunFair ==
    /\ SpecRun
    /\ WF_vars(Tick(TicksPerSecond))
    /\ \A w \in Workers :
        /\ WF_vars(GetRetryable(w))
        /\ WF_vars(SaveRetry(w))
        /\ WF_vars(ClaimSelect(w))
        /\ WF_vars(ClaimUpdate(w))
        /\ WF_vars(Report(w))

\* QueueManager.cleanup_old_jobs(days), called by a client of the API that built
\* its QueueManager before the run: one DELETE; the result is the row count.
Cleanup(days) ==
    /\ cpc = "none"
    /\ rows' = cleanup_old_jobs(rows, days, now)
    /\ cpc' = "done"
    /\ cop' = "cleanup"
    /\ cjob' = [NoJob EXCEPT !.max_retries = days]
    /\ cres' = ToString(Cardinality(CleanupDeletes(rows, days, now)))
    /\ UNCHANGED <<cstats, zone, config, pool, now, lock, wpc, wjob, execs>>

\* QueueManager.get_stats (queue_manager.py 149-156), called by a client of
\* the API that built its QueueManager before the run: one SELECT.
Stats ==
    /\ cpc = "none"
    /\ cstats' = get_stats(rows)
    /\ cpc' = "done"
    /\ cop' = "stats"
    /\ UNCHANGED <<zone, config, pool, rows, now, lock, wpc, wjob, cjob, cres, execs>>

\* The client's call returns.
StatsReturn ==
    /\ cpc = "done"
    /\ cop = "stats"
    /\ cpc' = "none"
    /\ cop' = ""
    /\ cstats' = NoStats
    /\ UNCHANGED <<zone, config, pool, rows, now, lock, wpc, wjob, cjob, cres, execs>>

\* Worker threads run the queued jobs while a client asks for the statistics.
InitStats == InitRun

NextStats ==
    \/ Tick(TicksPerSecond)
    \/ \E w \in Workers : GetRetryable(w)
    \/ \E w \in Workers : SaveRetry(w)
    \/ \E w \in Workers : ClaimSelect(w)
    \/ \E w \in Workers : ClaimUpdate(w)
    \/ \E w \in Workers : Report(w)
    \/ Stats
    \/ StatsReturn

SpecStats == InitStats /\ [][NextStats]_vars

\* One worker thread (`worker start -c 1`) in any time zone, with the clock read
\* at any tick, and a client that cleans up.
InitClock ==
    /\ \E present \in SUBSET JobIds, c \in [JobIds -> Commands],
          m \in [JobIds -> RetryBudgets] :
          rows = [j \in AllIds |->
                    IF j \in present THEN NewJob(j, c[j], m[j], 0) ELSE NoJob]
    /\ wpc = [w \in Workers |-> IF w = 1 THEN "idle" ELSE "off"]
    /\ now = 0
    /\ lock = 0
    /\ wjob = [w \in Workers |-> NoJob]
    /\ cpc = "none"
    /\ cop = ""
    /\ cjob = NoJob
    /\ cres = ""
    /\ execs = [j \in AllIds |-> 0]
    /\ zone \in Zones
    /\ config = DEFAULT_CONFIG
    /\ pool = PoolOf(wpc)
    /\ cstats = NoStats

NextClock ==
    \/ Tick(1)
    \/ \E w \in Workers : GetRetryable(w)
    \/ \E w \in Workers : SaveRetry(w)
    \/ \E w \in Workers : ClaimSelect(w)
    \/ \E w \in Workers : ClaimUpdate(w)
    \/ \E w \in Workers : Report(w)
    \/ \E days \in {0, 1} : Cleanup(days)
    \/ CliExit

SpecClock == InitClock /\ [][NextClock]_vars

\* A run of the worker process over jobs of every kind of outcome: exit 0,
\* exit 1, no exit within job_timeout, exit 0 with output that is not text;
\* under the default configuration or after `config set backoff-base inf`.
ExecCommands == {"true", "false", "sleep", "binary"}

InitExec ==
    /\ \E present \in SUBSET JobIds, c \in [JobIds -> ExecCommands],
          m \in [JobIds -> RetryBudgets] :
          rows = [j \in AllIds |->
                    IF j \in present THEN NewJob(j, c[j], m[j], 0) ELSE NoJob]
    /\ \E count \in Workers :
          wpc = [w \in Workers |-> IF w <= count THEN "idle" ELSE "off"]
    /\ now = 0
    /\ lock = 0
    /\ wjob = [w \in Workers |-> NoJob]
    /\ cpc = "none"
    /\ cop = ""
    /\ cjob = NoJob
    /\ cres = ""
    /\ execs = [j \in AllIds |-> 0]
    /\ zone = FixedZone
    /\ config \in {DEFAULT_CONFIG, [DEFAULT_CONFIG EXCEPT !.backoff_base = Inf]}
    /\ pool = PoolOf(wpc)
    /\ cstats = NoStats

NextExec ==
    \/ Tick(TicksPerSecond)
    \/ \E w \in Workers : GetRetryable(w)
    \/ \E w \in Workers : SaveRetry(w)
    \/ \E w \in Workers : ClaimSelect(w)
    \/ \E w \in Workers : ClaimUpdate(w)
    \/ \E w \in Workers : Report(w)
    \/ \E w \in Workers : ReportRaised(w)

SpecExec == InitExec /\ [][NextExec]_vars

\* One worker thread and the enqueue and dlq retry commands of a client, on a
\* database whose writes may fail.
InitStorage ==
    /\ \E present \in SUBSET JobIds, c \in [JobIds -> CliCommands],
          m \in [JobIds -> RetryBudgets] :
          rows = [j \in AllIds |->
                    IF j \in present THEN NewJob(j, c[j], m[j], 0) ELSE NoJob]
    /\ wpc = [w \in Workers |-> IF w = 1 THEN "idle" ELSE "off"]
    /\ now = 0
    /\ lock = 0
    /\ wjob = [w \in Workers |-> NoJob]
    /\ cpc = "none"
    /\ cop = ""
    /\ cjob = NoJob
    /\ cres = ""
    /\ execs = [j \in AllIds |-> 0]
    /\ zone = FixedZone
    /\ config = DEFAULT_CONFIG
    /\ pool = PoolOf(wpc)
    /\ cstats = NoStats

NextStorage ==
    \/ Tick(TicksPerSecond)
    \/ \E w \in Workers : GetRetryable(w)
    \/ \E w \in Workers : SaveRetry(w)
    \/ \E w \in Workers : ClaimSelect(w)
    \/ \E w \in Workers : ClaimUpdate(w)
    \/ \E w \in Workers : Report(w)
    \/ \E w \in Workers : ReportUnsaved(w)
    \/ \E op \in {"enqueue", "retry_dlq"}, id \in CliJobIds :
            CliStart(op, id, "true", 1)
    \/ EnqueueCheck
    \/ EnqueueSave
    \/ EnqueueUnsaved
    \/ RetryDlqGet
    \/ RetryDlqSave
    \/ RetryDlqUnsaved
    \/ CliExit

SpecStorage == InitStorage /\ [][NextStorage]_vars

\* One worker process from start to exit: `worker start -c K` on a store of
\* pending jobs (commands that exit 0 or 1), then a
\* stop_workers call at any moment and the exit; or `worker stop`, whose
\* process has no workers.
InitStop ==
    /\ \E present \in SUBSET JobIds, c \in [JobIds -> CliCommands],
          m \in [JobIds -> RetryBudgets] :
          rows = [j \in AllIds |->
                    IF j \in present THEN NewJob(j, c[j], m[j], 0) ELSE NoJob]
    /\ wpc = [w \in Workers |-> "off"]
    /\ now = 0
    /\ lock = 0
    /\ wjob = [w \in Workers |-> NoJob]
    /\ cpc = "none"
    /\ cop = ""
    /\ cjob = NoJob
    /\ cres = ""
    /\ execs = [j \in AllIds |-> 0]
    /\ zone = FixedZone
    /\ config = DEFAULT_CONFIG
    /\ pool = PoolOf(wpc)
    /\ cstats = NoStats

NextStop ==
    \/ Tick(TicksPerSecond)
    \/ \E count \in Workers : PoolStart(count)
    \/ \E w \in Workers : RunEnds(w)
    \/ \E w \in Workers : GetRetryable(w)
    \/ \E w \in Workers : SaveRetry(w)
    \/ \E w \in Workers : ClaimSelect(w)
    \/ \E w \in Workers : ClaimUpdate(w)
    \/ \E w \in Workers : Report(w)
    \/ StopWorkers
    \/ StopFlag
    \/ JoinWorker
    \/ StopReturn
    \/ ExitAfterStop

\* A thread of a live process that can take its next step eventually takes it,
\* and time passes; the main thread may stay in its join or put off its exit.
SpecStop ==
    /\ InitStop
    /\ [][NextStop]_vars
    /\ WF_vars(Tick(TicksPerSecond))
    /\ \A w \in Workers :
        /\ WF_vars(RunEnds(w))
        /\ WF_vars(GetRetryable(w))
        /\ WF_vars(SaveRetry(w))
        /\ WF_vars(ClaimSelect(w))
        /\ WF_vars(ClaimUpdate(w))
        /\ WF_vars(Report(w))

\* The counts `worker start -c` is given.
StartCounts == (-1)..NumWorkers

\* `worker start` with any count on a store of pending jobs: a refused start
\* may be repeated, an accepted one runs the workers.
InitStart == InitStop

NextStart ==
    \/ Tick(TicksPerSecond)
    \/ \E count \in StartCounts : WorkerStart(count)
    \/ \E w \in Workers : GetRetryable(w)
    \/ \E w \in Workers : SaveRetry(w)
    \/ \E w \in Workers : ClaimSelect(w)
    \/ \E w \in Workers : ClaimUpdate(w)
    \/ \E w \in Workers : Report(w)
    \/ CliExit

SpecStart == InitStart /\ [][NextStart]_vars

\* Two client processes enqueue into an empty store while the workers run.
InitClients ==
    /\ rows = [j \in AllIds |-> NoJob]
    /\ \E count \in Workers :
          wpc = [w \in Workers |-> IF w <= count THEN "idle" ELSE "off"]
    /\ now = 0
    /\ lock = 0
    /\ wjob = [w \in Workers |-> NoJob]
    /\ cpc = "none"
    /\ cop = ""
    /\ cjob = NoJob
    /\ cres = ""
    /\ execs = [j \in AllIds |-> 0]
    /\ zone = FixedZone
    /\ config = DEFAULT_CONFIG
    /\ pool = PoolOf(wpc)
    /\ cstats = NoStats

NextClients ==
    \/ Tick(TicksPerSecond)
    \/ \E w \in Workers : GetRetryable(w)
    \/ \E w \in Workers : SaveRetry(w)
    \/ \E w \in Workers : ClaimSelect(w)
    \/ \E w \in Workers : ClaimUpdate(w)
    \/ \E w \in Workers : Report(w)
    \/ \E id \in CliJobIds, c \in CliCommands, m \in RetryBudgets :
            CliStart("enqueue", id, c, m)
    \/ EnqueueCheck
    \/ EnqueueSave
    \/ CliExit
    \/ \E id \in CliJobIds, c \in CliCommands, m \in RetryBudgets : OtherEnqueue(id, c, m)

SpecClients == InitClients /\ [][NextClients]_vars

\* The pool with a store that fails at any read or claim of a worker.
InitErrors == InitStop

NextErrors ==
    \/ Tick(TicksPerSecond)
    \/ \E count \in Workers : PoolStart(count)
    \/ \E w \in Workers : RunEnds(w)
    \/ \E w \in Workers : GetRetryable(w)
    \/ \E w \in Workers : SaveRetry(w)
    \/ \E w \in Workers : ClaimSelect(w)
    \/ \E w \in Workers : ClaimUpdate(w)
    \/ \E w \in Workers : Report(w)
    \/ \E w \in Workers : GetNextJobRaises(w)
    \/ \E w \in Workers : Resumes(w)
    \/ StopWorkers
    \/ StopFlag
    \/ JoinWorker
    \/ StopReturn
    \/ ExitAfterStop

\* The threads are scheduled as in SpecStop; nothing says when the store fails.
SpecErrors ==
    /\ InitErrors
    /\ [][NextErrors]_vars
    /\ WF_vars(Tick(TicksPerSecond))
    /\ \A w \in Workers :
        /\ WF_vars(RunEnds(w))
        /\ WF_vars(GetRetryable(w))
        /\ WF_vars(SaveRetry(w))
        /\ WF_vars(ClaimSelect(w))
        /\ WF_vars(ClaimUpdate(w))
        /\ WF_vars(Report(w))
        /\ WF_vars(Resumes(w))

\* The worker process over several lives: `worker start -c K` on a store of
\* pending jobs (commands that exit 0 or 1), the process ending at any moment (crash, or exit with threads
\* abandoned), and `worker start` again.
InitRestart ==
    /\ \E present \in SUBSET JobIds, c \in [JobIds -> CliCommands],
          m \in [JobIds -> RetryBudgets] :
          rows = [j \in AllIds |->
                    IF j \in present THEN NewJob(j, c[j], m[j], 0) ELSE NoJob]
    /\ wpc = [w \in Workers |-> "off"]
    /\ now = 0
    /\ lock = 0
    /\ wjob = [w \in Workers |-> NoJob]
    /\ cpc = "none"
    /\ cop = ""
    /\ cjob = NoJob
    /\ cres = ""
    /\ execs = [j \in AllIds |-> 0]
    /\ zone = FixedZone
    /\ config = DEFAULT_CONFIG
    /\ pool = PoolOf(wpc)
    /\ cstats = NoStats

NextRestart ==
    \/ Tick(TicksPerSecond)
    \/ \E count \in Workers : PoolStart(count)
    \/ PoolExit
    \/ \E w \in Workers : GetRetryable(w)
    \/ \E w \in Workers : SaveRetry(w)
    \/ \E w \in Workers : ClaimSelect(w)
    \/ \E w \in Workers : ClaimUpdate(w)
    \/ \E w \in Workers : Report(w)

\* A thread of a live process that can take its next step eventually takes it,
\* and time passes; nothing makes the process start or keeps it from ending.
SpecRestart ==
    /\ InitRestart
    /\ [][NextRestart]_vars
    /\ WF_vars(Tick(TicksPerSecond))
    /\ \A w \in Workers :
        /\ WF_vars(GetRetryable(w))
        /\ WF_vars(SaveRetry(w))
        /\ WF_vars(ClaimSelect(w))
        /\ WF_vars(ClaimUpdate(w))
        /\ WF_vars(Report(w))

\* The enqueue commands of a client on a machine with no worker process:
\* `queuectl add ID COMMAND [-r N]` takes any two strings, the empty string
\* included, and -r may be left out; the configuration file holds any value
\* that `config set max-retries` has stored.
InitEnqueue ==
    /\ rows = [j \in AllIds |-> NoJob]
    /\ now = 0
    /\ lock = 0
    /\ wpc = [w \in Workers |-> "off"]
    /\ wjob = [w \in Workers |-> NoJob]
    /\ cpc = "none"
    /\ cop = ""
    /\ cjob = NoJob
    /\ cres = ""
    /\ execs = [j \in AllIds |-> 0]
    /\ zone = FixedZone
    /\ config \in {[DEFAULT_CONFIG EXCEPT !.max_retries = m] : m \in {1, DefaultMaxRetries}}
    /\ pool = PoolOf(wpc)
    /\ cstats = NoStats

NextEnqueue ==
    \/ Tick(TicksPerSecond)
    \/ \E id \in {EmptyId} \cup CliJobIds, c \in {"", "true"}, m \in {Null} \cup RetryBudgets :
            CliStart("enqueue", id, c, m)
    \/ EnqueueCheck
    \/ EnqueueSave
    \/ CliExit

SpecEnqueue == InitEnqueue /\ [][NextEnqueue]_vars

\* The configuration commands of a machine that runs no workers.
InitConfig ==
    /\ rows = [j \in AllIds |-> NoJob]
    /\ wpc = [w \in Workers |-> "off"]
    /\ now = 0
    /\ lock = 0
    /\ wjob = [w \in Workers |-> NoJob]
    /\ cpc = "none"
    /\ cop = ""
    /\ cjob = NoJob
    /\ cres = ""
    /\ execs = [j \in AllIds |-> 0]
    /\ zone = FixedZone
    /\ config = DEFAULT_CONFIG
    /\ pool = PoolOf(wpc)
    /\ cstats = NoStats

NextConfig ==
    \/ \E key \in ConfigKeys, text \in ValueTexts : ConfigSet(key, text)
    \/ CliExit

SpecConfig == InitConfig /\ [][NextConfig]_vars

\* ------------------------------------------------------------ properties
Present(j) == rows[j] # NoJob

\* Worker w's get_next_pending_job returns a Job in this step.
ClaimReturned(w) == wpc[w] = "claim_update" /\ wpc'[w] = "exec"

\* C1: get_next_pending_job is serialised (at most one thread is between its
\* SELECT and its UPDATE), and every Job it returns is one pending -> processing
\* transition of that row, made in the returning step and returned to that
\* caller alone.
C1_AtomicClaim ==
    [][/\ Cardinality({w \in Workers : wpc[w] = "claim_update"}) <= 1
       /\ \A w \in Workers :
            ClaimReturned(w) =>
              /\ rows[wjob[w].id].state = PENDING
              /\ rows'[wjob[w].id].state = PROCESSING
              /\ wjob'[w].id = wjob[w].id
              /\ \A v \in Workers \ {w} : ~ClaimReturned(v)]_vars

\* Two threads are in get_next_job at once: one has claimed the row, the other
\* is about to call get_next_pending_job.
C1_Witness ==
    \E w, v \in Workers :
        /\ w # v
        /\ wpc[w] = "exec"
        /\ rows[wjob[w].id].state = PROCESSING
        /\ execs[wjob[w].id] = 1
        /\ wpc[v] = "claim"

\* Worker w's reactivation write (get_next_job line 84) happens in this step.
ReactivationWrite(w) == wpc[w] = "save_retry" /\ wpc'[w] = "claim"

\* C2: a reactivation write changes only a row that is still failed (a
\* duplicate reactivation is a no-op), and no job is held by two workers at once.
C2_ReactivationHarmless ==
    [][/\ \A w \in Workers :
            ReactivationWrite(w) =>
                \/ rows[wjob[w].id].state = FAILED
                \/ rows' = rows
       /\ \A w, v \in Workers :
            (w # v /\ wpc[w] = "exec" /\ wpc[v] = "exec") => wjob[w].id # wjob[v].id]_vars

AllExitZero == \A j \in JobIds : Present(j) => ExitCodes(rows[j].command) = {0}

Holders(j) == {w \in Workers : wpc[w] = "exec" /\ wjob[w].id = j}

ReportsFailure(w) == \E code \in ExitCodes(wjob[w].command) \ {0} : ReportAs(w, code)

\* C4: mark_failed stores attempts + 1 and, when that is below max_retries,
\* state failed with the error and a next_retry_at; otherwise state dead with
\* the error and next_retry_at null.
C4_MarkFailed ==
    [][\A w \in Workers :
        ReportsFailure(w) =>
            LET old == wjob[w]
                new == rows'[old.id]
            IN  /\ new.attempts = old.attempts + 1
                /\ new.error_message = ErrorMessage(1)
                /\ IF new.attempts < new.max_retries
                   THEN new.state = FAILED /\ new.next_retry_at # Null
                   ELSE new.state = DEAD /\ new.next_retry_at = Null]_vars

\* C5: a job whose command always fails is handed to a worker at most
\* max_retries times, is dead exactly when it has been run max_retries times
\* (attempts = max_retries), and once dead stays dead (SpecRun has no retry_dlq).
C5_RunsExactlyM ==
    [][\A j \in JobIds :
        (Present(j) /\ 0 \notin ExitCodes(rows[j].command) /\ rows[j].max_retries >= 1) =>
            /\ execs[j] <= rows[j].max_retries
            /\ rows[j].state = DEAD =>
                 /\ execs[j] = rows[j].max_retries
                 /\ rows[j].attempts = rows[j].max_retries
                 /\ rows'[j].state = DEAD]_vars


\* C6 as stated: 0 <= attempts <= max_retries, below max_retries while the job
\* is not dead and equal to it when dead.
C6_AttemptsWithinBudget ==
    \A j \in JobIds : Present(j) =>
        /\ 0 <= rows[j].attempts
        /\ rows[j].attempts <= rows[j].max_retries
        /\ rows[j].state # DEAD => rows[j].attempts < rows[j].max_retries
        /\ rows[j].state = DEAD => rows[j].attempts = rows[j].max_retries

\* C6 amended: with max_retries >= 1 the bounds are as stated; with
\* max_retries = 0 attempts is 0 while the job is not dead and 1 when it is dead.
C6_AttemptsWithinBudgetAmended ==
    \A j \in JobIds : Present(j) =>
        IF rows[j].max_retries >= 1
        THEN /\ 0 <= rows[j].attempts
             /\ rows[j].attempts <= rows[j].max_retries
             /\ rows[j].state # DEAD => rows[j].attempts < rows[j].max_retries
             /\ rows[j].state = DEAD => rows[j].attempts = rows[j].max_retries
        ELSE /\ rows[j].state # DEAD => rows[j].attempts = 0
             /\ rows[j].state = DEAD => rows[j].attempts = 1

\* A job with a budget of two has failed twice and is dead, after a retry_dlq
\* had put it back once.
C6_Witness ==
    \E j \in JobIds :
        /\ Present(j)
        /\ rows[j].state = DEAD
        /\ rows[j].max_retries = 2
        /\ rows[j].attempts = 2
        /\ rows[j].created_at < rows[j].updated_at

C8_NextRetryIffFailed ==
    \A j \in JobIds : Present(j) =>
        (rows[j].next_retry_at # Null <=> rows[j].state = FAILED)

\* A QueueManager is constructed in this step: by a CLI command, or by
\* `worker start`.
QueueManagerInit ==
    \/ cpc = "none" /\ cpc' = "loaded"
    \/ (\A w \in Workers : wpc[w] = "off") /\ (\E w \in Workers : wpc'[w] # "off")

\* C9: once the QueueManager constructor has run no row is processing: each
\* row that was processing is pending with nothing but state and updated_at
\* changed, and every other row is as it was.
C9_NoProcessingAfterStart ==
    [][QueueManagerInit =>
        \A j \in JobIds :
            /\ rows'[j].state # PROCESSING
            /\ rows[j].state = PROCESSING =>
                 /\ rows'[j].state = PENDING
                 /\ rows'[j].attempts = rows[j].attempts
                 /\ rows'[j] = [rows[j] EXCEPT !.state = PENDING, !.updated_at = now]
            /\ rows[j].state # PROCESSING => rows'[j] = rows[j]]_vars

\* The worker process was restarted while a job was processing: the job is
\* pending again, has been handed out before, and no thread holds it.
C9_Witness ==
    /\ \E w \in Workers : wpc[w] = "idle"
    /\ \A w \in Workers : wpc[w] \in {"idle", "off"}
    /\ \E j \in JobIds :
        /\ rows[j].state = PENDING
        /\ rows[j].attempts = 0
        /\ execs[j] = 1
        /\ rows[j].updated_at > rows[j].created_at

\* The CLI's enqueue(id, ...) runs its existence test in this step and finds a row.
EnqueueOfExisting ==
    /\ cpc = "loaded"
    /\ cop = "enqueue"
    /\ Present(cjob.id)
    /\ cpc' # cpc

\* C10: enqueue of an id that has a row fails with "already exists" and leaves
\* the table, and so that row, as it was.
C10_DuplicateEnqueueFails ==
    [][EnqueueOfExisting =>
        /\ cpc' = "done"
        /\ cres' = "already exists"
        /\ rows' = rows
        /\ Present(cjob.id)']_vars

\* A duplicate enqueue has been refused while the row was in a state other
\* than pending.
C10_Witness ==
    /\ cpc = "done"
    /\ cres = "already exists"
    /\ Present(cjob.id)
    /\ rows[cjob.id].state = COMPLETED

\* The CLI's enqueue runs its existence test in this step, on an empty id or an
\* empty command.
EnqueueOfEmpty ==
    /\ cpc = "loaded"
    /\ cop = "enqueue"
    /\ (cjob.id = EmptyId \/ cjob.command = "")
    /\ cpc' # cpc

\* C11: enqueue with an empty id or an empty command fails and adds no row: the
\* call ends without success and with the table as it was, and no row ever has
\* an empty id or an empty command.
C11_EmptyArgumentRejected ==
    /\ [][EnqueueOfEmpty => (cpc' = "done" /\ cres' # "ok" /\ rows' = rows)]_vars
    /\ [](\A j \in AllIds : Present(j) => (j # EmptyId /\ rows[j].command # ""))

\* enqueue builds its Job in this step (no row with the id was found).
EnqueueBuilds == cpc = "loaded" /\ cop = "enqueue" /\ cpc' = "enq_save"

\* enqueue saves its Job and returns in this step.
EnqueueSaves == cpc = "enq_save" /\ cpc' = "done"

\* C12: a successful enqueue adds exactly one row: it found no row with the id,
\* the Job it builds is pending with attempts 0, no next_retry_at, no error
\* message, created_at = updated_at = the time of the call and the given (or,
\* when omitted, the configured) max_retries; its save stores that Job under
\* the id, reports success and leaves every other row as it was.
C12_EnqueueAddsOneRow ==
    [][/\ EnqueueBuilds =>
            /\ ~Present(cjob.id)
            /\ rows' = rows
            /\ cjob'.id = cjob.id
            /\ cjob'.command = cjob.command
            /\ cjob'.state = PENDING
            /\ cjob'.attempts = 0
            /\ cjob'.next_retry_at = Null
            /\ cjob'.error_message = ""
            /\ cjob'.created_at = now
            /\ cjob'.updated_at = now
            /\ cjob'.max_retries = IF cjob.max_retries = Null THEN config.max_retries
                                                              ELSE cjob.max_retries
       /\ EnqueueSaves =>
            /\ cres' = "ok"
            /\ rows'[cjob.id] = cjob
            /\ \A j \in AllIds \ {cjob.id} : rows'[j] = rows[j]]_vars

\* A job has been enqueued after time 0 without -r, with the default budget
\* configured, next to a row that was there before.
C12_Witness ==
    /\ cpc = "done"
    /\ cop = "enqueue"
    /\ cres = "ok"
    /\ rows[cjob.id] = cjob
    /\ cjob.state = PENDING
    /\ cjob.max_retries = DefaultMaxRetries
    /\ cjob.created_at > 0
    /\ \E j \in AllIds \ {cjob.id} : Present(j) /\ rows[j].created_at < cjob.created_at

\* retry_dlq_job has read a dead row and resets its Job in this step.
RetryDlqResets == cpc = "loaded" /\ cop = "retry_dlq" /\ cpc' = "dlq_save"

\* retry_dlq_job saves the reset Job and returns in this step.
RetryDlqSaves == cpc = "dlq_save" /\ cpc' = "done"

\* C13: retry_dlq of a dead job returns true and leaves its row pending with
\* attempts 0, no next_retry_at and no error message, with id, command,
\* max_retries and created_at as they were when it was called; no other row
\* changes.
C13_DlqRoundTrip ==
    [][/\ RetryDlqResets =>
            LET old == rows[cjob.id]
            IN  /\ old.state = DEAD
                /\ rows' = rows
                /\ cjob'.state = PENDING
                /\ cjob'.attempts = 0
                /\ cjob'.next_retry_at = Null
                /\ cjob'.error_message = ""
                /\ cjob'.id = old.id
                /\ cjob'.command = old.command
                /\ cjob'.max_retries = old.max_retries
                /\ cjob'.created_at = old.created_at
       /\ RetryDlqSaves =>
            /\ cres' = "true"
            /\ rows'[cjob.id] = cjob
            /\ \A j \in AllIds \ {cjob.id} : rows'[j] = rows[j]]_vars

\* A job with a budget of two, dead after its two failures (the first of which
\* had set next_retry_at), is back in the queue.
C13_Witness ==
    /\ cpc = "done"
    /\ cop = "retry_dlq"
    /\ cres = "true"
    /\ rows[cjob.id].state = PENDING
    /\ rows[cjob.id].max_retries = 2
    /\ rows[cjob.id].attempts = 0
    /\ rows[cjob.id].next_retry_at = Null
    /\ execs[cjob.id] = 0

\* retry_dlq_job reads the row and decides in this step.
RetryDlqDecides == cpc = "loaded" /\ cop = "retry_dlq" /\ cpc' # cpc

\* C14: retry_dlq goes on to the transition only when the row it reads exists
\* and is dead; otherwise it returns false and the table is as it was.
C14_RetryDlqOnlyDead ==
    [][RetryDlqDecides =>
        IF Present(cjob.id) /\ rows[cjob.id].state = DEAD
        THEN cpc' = "dlq_save" /\ rows' = rows
        ELSE cpc' = "done" /\ cres' = "false" /\ rows' = rows]_vars

\* retry_dlq has been refused for a job that is waiting for its retry.
C14_Witness ==
    /\ cpc = "done"
    /\ cop = "retry_dlq"
    /\ cres = "false"
    /\ Present(cjob.id)
    /\ rows[cjob.id].state = FAILED

\* C15: completed is terminal: a row that is completed stays completed (and so
\* is never claimed again) until it is deleted.
C15_CompletedIsTerminal ==
    [][\A j \in AllIds :
        rows[j].state = COMPLETED =>
            (rows'[j].state = COMPLETED \/ rows'[j] = NoJob)]_vars

\* cleanup_old_jobs(days) runs in this step.
CleanupRuns(days) == cpc = "none" /\ cpc' = "done" /\ cop' = "cleanup" /\ cjob'.max_retries = days

\* The rows cleanup_old(days) is to delete: completed, and last updated before
\* now - days.
OldCompleted(days) ==
    {j \in AllIds : rows[j].state = COMPLETED /\ rows[j].updated_at < Cutoff(days, now)}

\* C16: cleanup_old(days) deletes exactly the completed rows whose updated_at is
\* older than now - days, returns their number and leaves every other row as it
\* was (a dead row in particular).
C16_CleanupOldCompleted ==
    [][\A days \in {0, 1} :
        CleanupRuns(days) =>
            /\ \A j \in AllIds :
                 rows'[j] = IF j \in OldCompleted(days) THEN NoJob ELSE rows[j]
            /\ cres' = ToString(Cardinality(OldCompleted(days)))]_vars

\* C17: a failure that leaves the job failed sets next_retry_at to the time of
\* the failure plus backoff_base ^ attempts seconds, attempts being the
\* incremented count.
C17_BackoffDelay ==
    [][\A w \in Workers :
        (ReportsFailure(w) /\ rows'[wjob[w].id].state = FAILED) =>
            LET new == rows'[wjob[w].id]
            IN  /\ new.attempts = wjob[w].attempts + 1
                /\ new.next_retry_at
                     = now + TicksPerSecond * Pow(BackoffBase, new.attempts)]_vars

\* Worker w's get_next_job takes job j from get_retryable_jobs in this step.
Reactivates(w, j) == wpc[w] = "idle" /\ wpc'[w] = "save_retry" /\ wjob'[w].id = j

\* C18: get_retryable_jobs returns exactly the failed rows whose next_retry_at
\* has been reached, and a worker moves a failed job back to pending only when
\* the time has reached its next_retry_at.
C18_NoRetryBeforeTime ==
    /\ [](get_retryable_jobs(rows, now)
            = {j \in AllIds : /\ rows[j].state = FAILED
                              /\ rows[j].next_retry_at # Null
                              /\ rows[j].next_retry_at <= now})
    /\ [][\A w \in Workers, j \in AllIds :
            Reactivates(w, j) => rows[j].next_retry_at <= now]_vars

\* Worker w's get_next_pending_job selects job j in this step.
ClaimSelects(w, j) == wpc[w] = "claim" /\ wpc'[w] = "claim_update" /\ wjob'[w].id = j

\* C19: get_next_pending_job selects the pending job with the smallest
\* created_at and, among pending jobs of equal created_at, the one with the
\* smallest id.
C19_ClaimsOldestThenSmallestId ==
    [][\A w \in Workers, j \in AllIds :
        ClaimSelects(w, j) =>
            \A k \in AllIds :
                rows[k].state = PENDING =>
                    \/ rows[j].created_at < rows[k].created_at
                    \/ rows[j].created_at = rows[k].created_at /\ j <= k]_vars

\* Job j waits for a retry time that the clock, which has stopped at its last
\* value, has not reached.
WaitsBeyondClock(j) ==
    /\ rows[j].state = FAILED
    /\ now + TicksPerSecond > MaxTime
    /\ rows[j].next_retry_at # Null
    /\ ~IsoLE(rows[j].next_retry_at, now)

PoolStarts == (\A w \in Workers : wpc[w] = "off") /\ (\E w \in Workers : wpc'[w] # "off")

\* No worker process is alive.
PoolDown == \A w \in Workers : wpc[w] = "off"

\* Job j was left in processing by a worker process that has ended.
Marooned(j) == rows[j].state = PROCESSING /\ PoolDown

\* A worker thread is executing job j.
Executing(j) == \E w \in Workers : wpc[w] = "exec" /\ wjob[w].id = j

\* C21: a job left in processing when the worker process ended is pending
\* after the next startup, and when a worker process then stays up the job is
\* executed again.
C21_AtLeastOnceAcrossRestarts ==
    /\ [][PoolStarts =>
            \A j \in JobIds : rows[j].state = PROCESSING => rows'[j].state = PENDING]_vars
    /\ \A j \in JobIds :
            <>[](~PoolDown) => [](Marooned(j) => <>Executing(j))

\* A job whose command always succeeds is executed a second time: its first
\* execution was cut off by the end of the process.
C21_Witness ==
    \E j \in JobIds :
        /\ rows[j].command = "true"
        /\ execs[j] >= 2
        /\ Executing(j)

\* _execute_job returns to worker w's loop in this step.
ExecuteReturns(w) == wpc[w] = "exec" /\ wpc'[w] = "idle"

\* C22: when the child of a claimed job exits with code 0 the execution is
\* reported by mark_completed: the row is completed with the attempts of the
\* claimed job, which are 0 when this was the job's first run.
C22_ExitZeroCompletes ==
    [][\A w \in Workers :
        (ExecuteReturns(w) /\ ExitCode(wjob[w].command) = 0) =>
            LET new == rows'[wjob[w].id]
            IN  /\ new.state = COMPLETED
                /\ new.attempts = wjob[w].attempts
                /\ execs[wjob[w].id] = 1 => new.attempts = 0]_vars

\* Every execution of the command is unsuccessful: subprocess.run raises, or
\* returns a non-zero code.
Unsuccessful(command) == 0 \notin ExitCodes(command)

\* C23: every unsuccessful execution is reported by exactly one mark_failed:
\* when _execute_job returns the row is failed or dead, no longer processing,
\* and its attempts are those of the claimed job plus one.
C23_FailureReportedOnce ==
    [][\A w \in Workers :
        (ExecuteReturns(w) /\ Unsuccessful(wjob[w].command)) =>
            LET new == rows'[wjob[w].id]
            IN  /\ new.state \in {FAILED, DEAD}
                /\ new.attempts = wjob[w].attempts + 1]_vars

\* C24: enqueue and retry_dlq report success, and mark_completed and
\* mark_failed return normally, only when the row has been written.
C24_WriteFailureReported ==
    [][/\ (cpc = "enq_save" /\ cpc' = "done" /\ cres' = "ok") => rows'[cjob.id] = cjob
       /\ (cpc = "dlq_save" /\ cpc' = "done" /\ cres' = "true") => rows'[cjob.id] = cjob
       /\ \A w \in Workers :
            ExecuteReturns(w) =>
                /\ rows'[wjob[w].id].state \in {COMPLETED, FAILED, DEAD}
                /\ rows'[wjob[w].id].updated_at = now]_vars

\* C25: stop_workers sets the stop flag of every worker before it joins any,
\* and when it has returned the worker list is empty and shutdown_event is set.
C25_StopEndsSignalled ==
    /\ pool.joined # {} => \A w \in pool.workers : ~pool.running[w]
    /\ pool.pc = "returned" => (pool.workers = {} /\ pool.shutdown_event)

\* Worker w's thread is alive and its stop flag is set.
Stopping(w) == wpc[w] \notin {"off", "stopped"} /\ ~pool.running[w]

\* Worker w's thread has left its loop, or its process has ended.
LoopLeft(w) == wpc[w] \in {"off", "stopped"}

\* C26: once its stop flag is set a worker leaves its loop; a worker that is
\* between jobs then executes no other job.
C26_StopsWithoutAnotherJob ==
    /\ \A w \in Workers : [](Stopping(w) => <>LoopLeft(w))
    /\ [][\A w \in Workers :
            (Stopping(w) /\ wpc[w] # "exec") => wpc'[w] # "exec"]_vars

\* C26 as amended: once its stop flag is set a worker leaves its loop (or its
\* process ends); a worker at its loop test, asleep between polls, makes no
\* other poll; a worker inside get_next_job or mid-job ends that iteration,
\* the execution of a job it claims included, and then makes no other poll.
C26_StopsAtLoopTest ==
    /\ \A w \in Workers : [](Stopping(w) => <>LoopLeft(w))
    /\ [][\A w \in Workers :
            (Stopping(w) /\ wpc[w] = "idle") => wpc'[w] \in {"idle", "stopped", "off"}]_vars
    /\ [][\A w \in Workers :
            (Stopping(w) /\ wpc[w] = "exec") => wpc'[w] \in {"exec", "idle", "off"}]_vars

\* A stopped worker has left its loop after a job was completed and while
\* another job is still pending.
C26_Witness ==
    \E w \in Workers, j, k \in JobIds :
        /\ wpc[w] = "stopped"
        /\ ~pool.running[w]
        /\ rows[j].state = COMPLETED
        /\ rows[k].state = PENDING

\* C27: in every row created_at <= updated_at, and the updated_at of a row
\* never decreases from one write of the row to the next.
C27_TimestampsMonotonic ==
    /\ [](\A j \in AllIds : Present(j) => rows[j].created_at <= rows[j].updated_at)
    /\ [][\A j \in AllIds :
            (Present(j) /\ rows'[j] # NoJob) => rows[j].updated_at <= rows'[j].updated_at]_vars

\* The number of rows in state s.
RowsIn(s) == Cardinality({j \in AllIds : Present(j) /\ rows[j].state = s})

\* C28: get_stats returns for each of the five states the number of rows in
\* that state, and total is the sum of the five, the number of rows.
C28_StatsCountRows ==
    [][Stats =>
        /\ \A s \in JobStates : cstats'[s] = RowsIn(s)
        /\ cstats'["total"] = cstats'[PENDING] + cstats'[PROCESSING]
                                + cstats'[COMPLETED] + cstats'[FAILED] + cstats'[DEAD]
        /\ cstats'["total"] = Cardinality({j \in AllIds : Present(j)})]_vars

\* Statistics were returned for a table with rows in two states, one of them
\* processing.
C28_Witness ==
    /\ cop = "stats"
    /\ cstats["total"] = NumJobs
    /\ cstats[PROCESSING] = 1
    /\ Cardinality({s \in JobStates : cstats[s] > 0}) = 2

\* Whether the text is a value that meets the constraint of the key: an
\* integer >= 0, > 0, >= 1, >= 0, or a number > 0.
MeetsConstraint(key, text) ==
    CASE key = "max-retries" -> text \in IntTexts /\ IntOf(text) >= 0
      [] key = "backoff-base" ->
            text \in IntTexts \cup {"inf"} /\ FloatOf(text) > 0
      [] key = "job-timeout" -> text \in IntTexts /\ IntOf(text) > 0
      [] key = "poll-interval" -> text \in IntTexts /\ IntOf(text) >= 1
      [] key = "worker-shutdown-timeout" -> text \in IntTexts /\ IntOf(text) >= 0
      [] OTHER -> FALSE

\* C29: config set accepts a value only if it meets the constraint of its key;
\* an unknown key or an out-of-range value exits with 1 and leaves the stored
\* configuration as it was.
C29_ConfigSetValidates ==
    [][\A key \in ConfigKeys, text \in ValueTexts :
          ConfigSet(key, text) =>
            /\ cres' = "updated" => MeetsConstraint(key, text)
            /\ ~MeetsConstraint(key, text) => (cres' = "exit 1" /\ config' = config)]_vars

\* The reads of get_next_job that found a retry-ready job, and its write.
ReadsHead(w) == GetRetryable(w) /\ wpc'[w] = "save_retry"

\* C30: a next_job call reactivates one failed job, the retry-ready one with
\* the smallest next_retry_at: it becomes pending with next_retry_at cleared
\* and attempts unchanged, no other row changes, and the claim that follows
\* moves at most one job into processing.
C30_ReactivatesHeadOnly ==
    [][\A w \in Workers :
        /\ ReadsHead(w) =>
              /\ wjob'[w].id \in get_retryable_jobs(rows, now)
              /\ \A k \in get_retryable_jobs(rows, now) :
                    rows[wjob'[w].id].next_retry_at <= rows[k].next_retry_at
        /\ SaveRetry(w) =>
              /\ rows'[wjob[w].id].state = PENDING
              /\ rows'[wjob[w].id].next_retry_at = Null
              /\ rows'[wjob[w].id].attempts = rows[wjob[w].id].attempts
              /\ \A k \in AllIds \ {wjob[w].id} : rows'[k] = rows[k]
        /\ ClaimUpdate(w) =>
              Cardinality({k \in AllIds : /\ rows'[k].state = PROCESSING
                                          /\ rows[k].state # PROCESSING}) <= 1]_vars

\* The row differs from the old one in nothing but state and updated_at.
OnlyStateAndUpdatedAt(old, new) ==
    [new EXCEPT !.state = old.state, !.updated_at = old.updated_at] = old

\* C31: claim_next_pending returns none and changes no row when there is no
\* pending row or its conditional UPDATE affects no row; otherwise it changes
\* only state (to processing) and updated_at of the selected row, no other
\* row, and returns that row as it now is.
C31_ConditionalUpdate ==
    [][\A w \in Workers :
        /\ (ClaimSelect(w) /\ wpc'[w] = "idle") => (rows' = rows /\ wjob'[w] = NoJob)
        /\ ClaimUpdate(w) =>
              IF rows[wjob[w].id].state # PENDING
              THEN wpc'[w] = "idle" /\ wjob'[w] = NoJob /\ rows' = rows
              ELSE /\ wpc'[w] = "exec"
                   /\ rows'[wjob[w].id].state = PROCESSING
                   /\ OnlyStateAndUpdatedAt(rows[wjob[w].id], rows'[wjob[w].id])
                   /\ \A k \in AllIds \ {wjob[w].id} : rows'[k] = rows[k]
                   /\ wjob'[w] = rows'[wjob[w].id]]_vars

\* Job j is pending again after a failure: it was reactivated.
Reactivated(j) == rows[j].state = PENDING /\ rows[j].attempts > 0

\* Job j was created before every other pending job.
OlderThanOtherPending(j) ==
    \A k \in AllIds \ {j} :
        rows[k].state = PENDING => rows[j].created_at < rows[k].created_at

\* C32: no operation after the enqueue changes the created_at of a row, and
\* so a reactivated job that is older than every other pending job is the one
\* the next claim selects.
C32_CreatedAtSetOnce ==
    [][/\ ~EnqueueSave =>
            \A j \in AllIds :
                (Present(j) /\ rows'[j] # NoJob) => rows'[j].created_at = rows[j].created_at
       /\ \A w \in Workers, j \in AllIds :
            (ClaimSelect(w) /\ wpc'[w] = "claim_update"
                /\ Reactivated(j) /\ OlderThanOtherPending(j)) => wjob'[w].id = j]_vars

\* Worker w's thread ends in this step.
ThreadEnds(w) == wpc[w] \notin {"off", "stopped"} /\ wpc'[w] \in {"off", "stopped"}

\* C33: an exception in a worker's loop iteration does not end the worker and
\* touches no other worker: the worker is in its error sleep with the lock
\* free and every other worker as it was; a thread ends only with its stop flag
\* set or with the process; and after the sleep the worker polls again unless
\* it is stopped.
C33_ErrorsStayInTheLoop ==
    /\ [][\A w \in Workers :
            /\ GetNextJobRaises(w) =>
                  /\ wpc'[w] = "caught"
                  /\ lock' # w
                  /\ rows' = rows
                  /\ pool' = pool
                  /\ \A v \in Workers \ {w} : wpc'[v] = wpc[v] /\ wjob'[v] = wjob[v]
            /\ ThreadEnds(w) => (~pool.running[w] \/ pool'.pc = "exited")]_vars
    /\ \A w \in Workers :
          (wpc[w] = "caught") ~>
              (wpc[w] \in {"save_retry", "claim"} \/ ~pool.running[w] \/ pool.pc = "exited")

\* Worker 1 sleeps after an error while worker 2 executes a job.
C33_Witness ==
    /\ wpc[1] = "caught"
    /\ wpc[2] = "exec"
    /\ pool.running[1]

\* The worker threads that are alive.
Alive == {w \in Workers : wpc[w] # "off"}

InFlight(w, j) == wpc[w] = "exec" /\ wjob[w].id = j /\ rows[j].state = PROCESSING

\* C35: while a worker executes a job only that worker's report moves the row
\* out of processing (the QueueManager another process builds does not), and
\* no two workers execute the same job at the same time.
C35_InFlightStaysProcessing ==
    /\ [][\A w \in Workers, j \in AllIds :
            (InFlight(w, j) /\ rows'[j].state # PROCESSING) => wpc'[w] = "idle"]_vars
    /\ [](\A w, v \in Workers :
            (w # v /\ wpc[w] = "exec" /\ wpc[v] = "exec") => wjob[w].id # wjob[v].id)

\* The client's enqueue succeeds in this step.
EnqueueSucceeds == cpc = "enq_save" /\ cpc' = "done" /\ cres' = "ok"

\* C36: an enqueue that succeeds inserts a row for an id that has none at that
\* moment: it overwrites no row, and of two concurrent enqueues of one id at
\* most one succeeds.
C36_EnqueueAtomic ==
    [][EnqueueSucceeds => rows[cjob.id] = NoJob]_vars

\* The client's delete runs in this step.
Deletes == cpc = "loaded" /\ cop = "delete" /\ cpc' = "done"

\* C37: delete returns true exactly when the row existed and removes that row
\* and no other; a row that is absent appears again only by an enqueue of its
\* id, never by a worker's report of the job it was executing.
C37_DeleteStaysDeleted ==
    /\ [][Deletes =>
            /\ (cres' = "true") <=> (rows[cjob.id] # NoJob)
            /\ rows'[cjob.id] = NoJob
            /\ \A j \in AllIds \ {cjob.id} : rows'[j] = rows[j]]_vars
    /\ [][\A j \in AllIds :
            (rows[j] = NoJob /\ rows'[j] # NoJob) =>
                (cpc = "enq_save" /\ cjob.id = j /\ cpc' = "done")]_vars

\* The change of row j's state in this step is a transition of the lifecycle,
\* made by the operation that owns it.
LifecycleStep(j) ==
    LET from == rows[j].state
        to == rows'[j].state
    IN  \/ /\ from = PENDING /\ to = PROCESSING
           /\ \E w \in Workers : wpc[w] = "claim_update" /\ wpc'[w] = "exec" /\ wjob[w].id = j
        \/ /\ from = PROCESSING /\ to \in {COMPLETED, FAILED, DEAD}
           /\ \E w \in Workers : wpc[w] = "exec" /\ wpc'[w] = "idle" /\ wjob[w].id = j
        \/ /\ from = FAILED /\ to = PENDING
           /\ \E w \in Workers : wpc[w] = "save_retry" /\ wpc'[w] = "claim" /\ wjob[w].id = j
        \/ /\ from = DEAD /\ to = PENDING
           /\ cpc = "dlq_save" /\ cpc' = "done" /\ cjob.id = j
        \/ /\ from = PROCESSING /\ to = PENDING
           /\ \A w \in Workers : wpc[w] = "off" \/ wpc'[w] = wpc[w]

\* C38: every change of a stored row's state is pending -> processing (claim),
\* processing -> completed, failed or dead (report), failed -> pending
\* (reactivation), dead -> pending (retry_dlq) or processing -> pending
\* (startup reset).
C38_LifecycleTransitionsOnly ==
    [][\A j \in AllIds :
          (rows[j] # NoJob /\ rows'[j] # NoJob /\ rows'[j].state # rows[j].state)
              => LifecycleStep(j)]_vars

\* Worker.is_busy, worker.py 137-144: current_job is not None; _run sets it
\* when get_next_job has returned a job (line 71) and clears it when
\* _execute_job has returned (line 74).
is_busy(w) == wpc[w] = "exec"

\* WorkerManager.get_active_count, worker.py 222-229.
get_active_count == Cardinality({w \in pool.workers : pool.running[w]})

\* WorkerManager.get_busy_count, worker.py 231-238.
get_busy_count == Cardinality({w \in pool.workers : is_busy(w)})

\* WorkerManager.get_status, worker.py 240-252.
get_status ==
    [total |-> Cardinality(pool.workers),
     active |-> get_active_count,
     busy |-> get_busy_count,
     idle |-> get_active_count - get_busy_count]

\* C39: in every state of the pool, also while stop_workers is running,
\* get_status gives 0 <= busy <= active <= total and idle = active - busy >= 0.
C39_StatusCountsOrdered ==
    /\ 0 <= get_status.busy
    /\ get_status.busy <= get_status.active
    /\ get_status.active <= get_status.total
    /\ get_status.idle = get_status.active - get_status.busy
    /\ get_status.idle >= 0

====
